---- MODULE Spec2Model ----
(***************************************************************************)
(* Price-prediction subsystem of the used-vehicle dashboard                *)
(* (src/pages/price_prediction.py): one script run of                      *)
(* render_price_prediction(df, vehicle_type) is train -> form -> predict   *)
(* -> price range -> similar listings -> feature importance.  A DataFrame  *)
(* is a record [columns, rows]; a row carries its index label idx.         *)
(***************************************************************************)
EXTENDS Integers, Sequences, FiniteSets, TLC

\* ---------------------------------------------------------------- bounds
\* rows with special content placed in front of the regular rows
MaxHead == 2
\* regular rows beyond the training floor
MaxOver == 0
\* columns a table may lack
MaxMissing == 2

\* ------------------------------------------------------- values and nulls
\* a missing number (float NaN) and a missing string (NaN in an object column)
NaN == -1
NA == "<NA>"
\* float infinity, as pd.to_numeric reads "inf"
Inf == 2000000000

None == <<>>
Some(x) == <<x>>
Get(o) == o[1]

\* columns holding text (dtype object); the others hold numbers
StringColumns == {"make", "model", "transmission", "fuel_type", "ad_url", "location",
                  "price_segment"}

\* a column named as text in which read_csv found nothing but numbers is a
\* numeric column; a frame lists such columns in its field numeric.  Their
\* cells are written by their digits ("125") and read by number_of.
numeric_columns(frame) == IF "numeric" \in DOMAIN frame THEN frame.numeric ELSE {}

number_of == ("0" :> 0) @@ ("1" :> 1) @@ ("2" :> 2) @@ ("125" :> 125) @@ ("150" :> 150)
             @@ ("250" :> 250)

cell_number(col, v) == IF col \in StringColumns THEN number_of[v] ELSE v

dtype(frame, col) ==
  IF col \in StringColumns \ numeric_columns(frame) THEN "object" ELSE "float64"

isna(col, v) == IF col \in StringColumns THEN v = NA ELSE v = NaN

\* Python's order of str values (code point order: upper case first)
StrOrder == <<"<NA>", "Auto", "City", "Civic", "Honda", "Manual", "Petrol", "Toyota",
              "Vios", "Zed", "Zeta", "diesel", "petrol", "url">>

Rank(s) == CHOOSE i \in DOMAIN StrOrder : StrOrder[i] = s

Range(s) == {s[i] : i \in DOMAIN s}

\* sorted(set of str): ascending sequence without repetitions
sorted(S) ==
  [k \in 1..Cardinality(S) |->
     CHOOSE s \in S : Cardinality({t \in S : Rank(t) < Rank(s)}) = k - 1]

RECURSIVE SumSeq(_)
SumSeq(s) ==
  IF s = <<>> THEN 0
  ELSE IF Len(s) = 1 THEN s[1]
  ELSE LET h == Len(s) \div 2
       IN SumSeq(SubSeq(s, 1, h)) + SumSeq(SubSeq(s, h + 1, Len(s)))

\* ------------------------------------------------------- training: schema
CarFeatures == <<"make", "model", "year", "mileage_avg", "transmission", "fuel_type">>
MotorcycleFeatures == <<"make", "model", "year">>

select_features(vehicle_type) ==
  IF vehicle_type = "car" THEN CarFeatures ELSE MotorcycleFeatures

\* a check that stops at the first missing feature
missing_features_first(columns, features) ==
  LET all == SelectSeq(features, LAMBDA f : f \notin columns)
  IN IF all = <<>> THEN <<>> ELSE <<Head(all)>>

missing_features(columns, features) ==
  SelectSeq(features, LAMBDA f : f \notin columns)

\* ------------------------------------------------------ training: cleaning
\* dropna without a subset: a null in any column drops the row
dropna_any_column(rows, subset) ==
  SelectSeq(rows, LAMBDA r : \A c \in DOMAIN r : c = "idx" \/ ~isna(c, r[c]))

dropna(rows, subset) ==
  SelectSeq(rows, LAMBDA r : \A c \in Range(subset) : ~isna(c, r[c]))

MinSamples == 100

insufficient_inclusive(n) == n <= MinSamples

insufficient(n) == n < MinSamples

\* ----------------------------------------------------- training: encoders
\* an encoder table that keeps one entry per row
fit_classes_per_row(rows, col) == [i \in DOMAIN rows |-> rows[i][col]]

\* LabelEncoder.fit: classes_ is the sorted distinct values of the column
fit_classes(rows, col) == sorted({r[col] : r \in Range(rows)})

encoded_columns(frame, features) ==
  {f \in Range(features) : dtype(frame, f) = "object"}

\* lines 35-39: one encoder per schema feature of dtype object, fitted on the
\* cleaned rows
build_encoders(frame, rows, features) ==
  [c \in encoded_columns(frame, features) |-> fit_classes(rows, c)]

\* a lookup that falls back to code 0 for an unseen label
transform_or_zero(classes, v) ==
  IF v \in Range(classes)
  THEN Some((CHOOSE i \in DOMAIN classes : classes[i] = v) - 1)
  ELSE Some(0)

\* LabelEncoder.transform of one value: its position in classes_, 0-based;
\* None stands for the ValueError raised on an unseen label
transform(classes, v) ==
  IF v \in Range(classes)
  THEN Some((CHOOSE i \in DOMAIN classes : classes[i] = v) - 1)
  ELSE None

\* the row as the model sees it: one number per schema feature, in schema
\* order (a year by its whole part)
encode_row(le_dict, features, r) ==
  [j \in DOMAIN features |->
     IF features[j] \in DOMAIN le_dict
     THEN Get(transform(le_dict[features[j]], r[features[j]]))
     ELSE cell_number(features[j], r[features[j]])]

\* -------------------------------------------------------- training: split
TestSizePct == 20

\* an evaluation share rounded down
n_test_floor(n) == (n * TestSizePct) \div 100

\* number of evaluation rows: ceil(test_size * n)
n_test(n) == (n * TestSizePct + 99) \div 100

\* the shuffle of positions 1..n drawn from the seeded generator (the
\* library's generator is external: a permutation fixed by n and the seed)
permutation(n, seed) == [i \in 1..n |-> ((seed + i - 1) % n) + 1]

train_test_split(n, seed) ==
  LET p == permutation(n, seed)
      k == n_test(n)
  IN [test |-> SubSeq(p, 1, k), train |-> SubSeq(p, k + 1, n)]

take(s, idxs) == [k \in DOMAIN idxs |-> s[idxs[k]]]

\* ---------------------------------------------------- training: regressor
NEstimators == 100

mean(ys) == SumSeq(ys) \div Len(ys)

\* check_array: the estimator refuses non-finite input (ValueError)
non_finite(X) == \E i \in DOMAIN X : \E j \in DOMAIN X[i] : X[i][j] = Inf

\* RandomForestRegressor.fit.  The forest is external; it is represented by
\* what the callers read of it: a prediction that is an average of training
\* targets (per value of the first feature, the overall average elsewhere)
\* and one contribution score per feature.
fit(X, y, seed) ==
  LET codes == {X[i][1] : i \in DOMAIN X}
      leaf(c) == SumSeq([i \in DOMAIN X |-> IF X[i][1] = c THEN y[i] ELSE 0])
                   \div Cardinality({i \in DOMAIN X : X[i][1] = c})
  IN [n_estimators |-> NEstimators,
      random_state |-> seed,
      n_features_in_ |-> Len(X[1]),
      leaf |-> [c \in codes |-> leaf(c)],
      root |-> mean(y),
      feature_importances_ |->
         [j \in DOMAIN X[1] |-> Cardinality({X[i][j] : i \in DOMAIN X})]]

\* model.predict for one input vector
predict(m, x) == IF x[1] \in DOMAIN m.leaf THEN m.leaf[x[1]] ELSE m.root

\* model.score: coefficient of determination, in percent, targets in thousands
score(m, X, y) ==
  LET ybar == mean(y)
      res == SumSeq([i \in DOMAIN y |->
                LET d == (y[i] - predict(m, X[i])) \div 1000 IN d * d])
      tot == SumSeq([i \in DOMAIN y |->
                LET d == (y[i] - ybar) \div 1000 IN d * d])
  IN IF tot = 0 THEN (IF res = 0 THEN 100 ELSE 0)
     ELSE 100 - ((100 * res) \div tot)

\* ------------------------------------------------ training: the function
Msg(level, kind, cols, n) == [level |-> level, kind |-> kind, cols |-> cols, n |-> n]

\* a failure result that keeps the feature list
no_model_keeps_features(out, calls) ==
  [model |-> None, le_dict |-> None, train_score |-> None, test_score |-> None,
   features |-> Some(<<"make", "model", "year">>), out |-> out, calls |-> calls,
   fit_data |-> None]

\* "return None, None, None, None, None"
no_model(out, calls) ==
  [model |-> None, le_dict |-> None, train_score |-> None, test_score |-> None,
   features |-> None, out |-> out, calls |-> calls, fit_data |-> None]

\* the inner try block: fit, the two scores, the five-part result
fit_and_score(le_dict, features, X, y, parts, fseed, calls, data) ==
  LET X_train == take(X, parts.train)
      y_train == take(y, parts.train)
      X_test == take(X, parts.test)
      y_test == take(y, parts.test)
      m == fit(X_train, y_train, fseed)
  IN IF non_finite(X_train)
     THEN no_model(<<Msg("error", "model_training", <<>>, 0)>>, calls \o <<"fit">>)
     ELSE IF non_finite(X_test)
     THEN no_model(<<Msg("error", "model_training", <<>>, 0)>>,
                   calls \o <<"fit", "score", "score">>)
     ELSE [model |-> Some(m), le_dict |-> Some(le_dict),
           train_score |-> Some(score(m, X_train, y_train)),
           test_score |-> Some(score(m, X_test, y_test)),
           features |-> Some(features), out |-> <<>>,
           calls |-> calls \o <<"fit", "score", "score">>,
           fit_data |-> Some(data)]

train_price_prediction_model(df, vehicle_type, sseed, fseed) ==
  LET features == select_features(vehicle_type)
      missing == missing_features(df.columns, features)
      model_df == dropna(df.rows, features \o <<"price">>)
      le_dict == build_encoders(df, model_df, features)
      X == [i \in DOMAIN model_df |-> encode_row(le_dict, features, model_df[i])]
      y == [i \in DOMAIN model_df |-> model_df[i].price]
      parts == train_test_split(Len(model_df), sseed)
      calls == [j \in 1..Cardinality(DOMAIN le_dict) |-> "fit_transform"]
                 \o <<"train_test_split">>
      data == [model_df |-> model_df, X |-> X, y |-> y, parts |-> parts]
  IN IF missing # <<>>
     THEN no_model(<<Msg("warning", "missing_features", missing, 0)>>, <<>>)
     ELSE IF "price" \notin df.columns
     THEN no_model(<<Msg("error", "data_preparation", <<"price">>, 0)>>, <<>>)
     ELSE IF insufficient(Len(model_df))
     THEN no_model(<<Msg("warning", "insufficient_data", <<>>, Len(model_df))>>, <<>>)
     ELSE fit_and_score(le_dict, features, X, y, parts, fseed, calls, data)

\* --------------------------------------------------------------- prediction
str(v) == IF v = NA THEN "nan" ELSE v

\* an input vector filled from the last schema feature to the first
input_row_reversed(encoders, model_features, inputs) ==
  LET n == Len(model_features)
  IN [j \in DOMAIN model_features |->
        IF model_features[n + 1 - j] \in DOMAIN encoders
        THEN Get(transform(encoders[model_features[n + 1 - j]],
                           str(inputs[model_features[n + 1 - j]])))
        ELSE cell_number(model_features[n + 1 - j], inputs[model_features[n + 1 - j]])]

\* lines 72-85: input_data, one entry per model feature in the order of
\* model_features; DataFrame([input_data]) keeps that order
input_row(encoders, model_features, inputs) ==
  [j \in DOMAIN model_features |->
     IF model_features[j] \in DOMAIN encoders
     THEN Get(transform(encoders[model_features[j]], str(inputs[model_features[j]])))
     ELSE cell_number(model_features[j], inputs[model_features[j]])]

\* predict_price: Some(price), or None after a warning (unknown category) or
\* an error (any other exception)
predict_price(prediction_model, encoders, model_features, inputs) ==
  LET unknown(j) == /\ model_features[j] \in DOMAIN encoders
                    /\ transform(encoders[model_features[j]],
                                 str(inputs[model_features[j]])) = None
      bad == {j \in DOMAIN model_features :
                model_features[j] \notin DOMAIN inputs \/ unknown(j)}
      first == CHOOSE j \in bad : \A k \in bad : j <= k
      input_data == input_row(encoders, model_features, inputs)
  IN IF bad # {}
     THEN IF model_features[first] \notin DOMAIN inputs
          THEN [value |-> None, calls |-> <<>>, input_df |-> None,
                out |-> <<Msg("error", "prediction", <<model_features[first]>>, 0)>>]
          ELSE [value |-> None, calls |-> <<>>, input_df |-> None,
                out |-> <<Msg("warning", "unknown_category", <<model_features[first]>>, 0)>>]
     ELSE IF non_finite(<<input_data>>)
     THEN [value |-> None, calls |-> <<"predict">>, input_df |-> Some(input_data),
           out |-> <<Msg("error", "prediction", <<>>, 0)>>]
     ELSE [value |-> Some(predict(prediction_model, input_data)),
           calls |-> <<"predict">>, input_df |-> Some(input_data), out |-> <<>>]

\* --------------------------------------------------------------- price range
ConfidencePct == 15

\* predicted_price * (1 - confidence_range), in hundredths of the currency unit
\* the range applied with the wrong sign
lower_bound_added(predicted_price) == predicted_price * (100 + ConfidencePct)

lower_bound_of(predicted_price) == predicted_price * (100 - ConfidencePct)

upper_bound_of(predicted_price) == predicted_price * (100 + ConfidencePct)

\* ---------------------------------------------------------- similar listings
YearWindow == 2
MileageWindow == 20000
DisplayLimit == 5

\* a window that leaves its ends out
between_exclusive(col, v, lo, hi) == ~isna(col, v) /\ lo < v /\ v < hi

\* Series.between: both ends included; a missing value is never between
between(col, v, lo, hi) == ~isna(col, v) /\ lo <= v /\ v <= hi

\* a year cell is a whole number of years (year) and the tenths of a year
\* beyond it (year_frac: 2015.5 is year 2015, year_frac 5); a row without the
\* second field holds a whole year
tenths(r) == IF "year_frac" \in DOMAIN r THEN r.year_frac ELSE 0

\* Series.between on the year column, both ends whole numbers
year_between(r, lo, hi) ==
  between("year", r.year, lo, hi) /\ (r.year = hi => tenths(r) = 0)

\* Series == value: a missing value equals nothing
eq(col, v, w) == ~isna(col, v) /\ v = w

similar_filter(r, inputs, vehicle_type, features) ==
  /\ eq("make", r.make, inputs.make)
  /\ eq("model", r.model, inputs.model)
  /\ year_between(r, inputs.year - YearWindow, inputs.year + YearWindow)
  /\ (vehicle_type = "car" /\ "mileage_avg" \in Range(features))
       => between("mileage_avg", r.mileage_avg,
                  inputs.mileage_avg - MileageWindow, inputs.mileage_avg + MileageWindow)

display_cols(vehicle_type) ==
  <<"make", "model", "year", "price", "ad_url">>
    \o (IF vehicle_type = "car" THEN <<"mileage_avg", "transmission", "fuel_type">>
        ELSE <<>>)

\* the last n rows instead of the first
tail_rows(rows, n) == SubSeq(rows, IF Len(rows) < n THEN 1 ELSE Len(rows) - n + 1, Len(rows))

head(rows, n) == SubSeq(rows, 1, IF Len(rows) < n THEN Len(rows) ELSE n)

\* the ad_url cell as displayed: a link, or "N/A" for a missing address
link(x) == IF x # NA THEN [a |-> "View Listing", href |-> x]
           ELSE [a |-> "N/A", href |-> NA]

display_row(r, cols) ==
  [c \in Range(cols) \cup {"idx"} \cup (DOMAIN r \cap {"year_frac"}) |->
     IF c = "ad_url" THEN link(r[c]) ELSE r[c]]

display(rows, vehicle_type) ==
  LET top == head(rows, DisplayLimit)
  IN [i \in DOMAIN top |-> display_row(top[i], display_cols(vehicle_type))]

\* a report sorted in ascending order of score
importance_frame_ascending(features, importances) ==
  LET n == Len(features)
      before(i, j) == \/ importances[i] < importances[j]
                      \/ (importances[i] = importances[j] /\ i < j)
      at(k) == CHOOSE i \in 1..n : Cardinality({j \in 1..n : before(j, i)}) = k - 1
  IN [k \in 1..n |-> [Feature |-> features[at(k)], Importance |-> importances[at(k)]]]

\* --------------------------------------------------------- feature importance
\* DataFrame({'Feature', 'Importance'}).sort_values('Importance', ascending=False)
importance_frame(features, importances) ==
  LET n == Len(features)
      before(i, j) == \/ importances[i] > importances[j]
                      \/ (importances[i] = importances[j] /\ i < j)
      at(k) == CHOOSE i \in 1..n : Cardinality({j \in 1..n : before(j, i)}) = k - 1
  IN [k \in 1..n |-> [Feature |-> features[at(k)], Importance |-> importances[at(k)]]]

\* ------------------------------------------------------------ input tables
CarColumns == {"make", "model", "year", "mileage_avg", "transmission", "fuel_type",
               "price", "ad_url"}
MotorcycleColumns == {"make", "model", "year", "price", "ad_url"}

columns_of(vehicle_type) ==
  IF vehicle_type = "car" THEN CarColumns ELSE MotorcycleColumns

\* a regular listing, all fields present
RegularRow(i) ==
  LET make == IF i % 2 = 1 THEN "Honda" ELSE "Toyota"
  IN [make |-> make,
      model |-> IF make = "Toyota" THEN "Vios" ELSE IF i % 4 = 1 THEN "Civic" ELSE "City",
      year |-> <<2015, 2016, 2018, 2020, 2021>>[(i % 5) + 1],
      mileage_avg |-> <<50000, 30000, 70000, 29999, 70001, 50000, 90000>>[(i % 7) + 1],
      transmission |-> IF i % 3 = 0 THEN "Manual" ELSE "Auto",
      fuel_type |-> IF i % 11 = 0 THEN "diesel" ELSE "petrol",
      price |-> 20000 + 10000 * (i % 6) + (IF make = "Honda" THEN 5000 ELSE 0),
      ad_url |-> IF i % 10 = 0 THEN NA ELSE "url"]

BaseRow == [make |-> "Honda", model |-> "Civic", year |-> 2018, mileage_avg |-> 50000,
            transmission |-> "Auto", fuel_type |-> "petrol", price |-> 60000,
            ad_url |-> "url"]

\* listings with special content: a make seen once whose mileage is missing,
\* a complete listing, an infinite mileage, a missing transmission, a missing make
SpecialRows ==
  <<[BaseRow EXCEPT !.make = "Zed", !.model = "Zeta", !.mileage_avg = NaN],
    BaseRow,
    [BaseRow EXCEPT !.mileage_avg = Inf],
    [BaseRow EXCEPT !.transmission = NA],
    [BaseRow EXCEPT !.make = NA]>>

\* the choices of special rows, each an ascending sequence of positions
Heads ==
  {sel \in SUBSET DOMAIN SpecialRows : Cardinality(sel) <= MaxHead}

ascending(S) ==
  [k \in 1..Cardinality(S) |-> CHOOSE x \in S : Cardinality({y \in S : y < x}) = k - 1]

RegularCounts == (MinSamples - 2)..(MinSamples + MaxOver)

\* regular rows that may come before the special ones
Leads == {0, 42}

\* the table: lead regular rows, the special rows, then the other regular rows
\* (n regular rows in all); index labels are even
Table(vehicle_type, sel, lead, n, dropped) ==
  LET cols == columns_of(vehicle_type) \ dropped
      hd == ascending(sel)
      full == [i \in 1..(Len(hd) + n) |->
                 IF i <= lead THEN RegularRow(i)
                 ELSE IF i <= lead + Len(hd) THEN SpecialRows[hd[i - lead]]
                 ELSE RegularRow(i - Len(hd))]
  IN [columns |-> cols,
      rows |-> [i \in DOMAIN full |->
                  [c \in cols \cup {"idx"} |-> IF c = "idx" THEN 2 * i ELSE full[i][c]]]]

\* the codes an export may write in place of names
CodeBook == [Honda |-> "1", Toyota |-> "2", Civic |-> "125", City |-> "150",
             Vios |-> "250", Auto |-> "0", Manual |-> "1", petrol |-> "0",
             diesel |-> "1"]

\* the table of an export that writes every make, model, transmission and
\* fuel type as a number
Coded(frame) ==
  LET text == frame.columns \cap {"make", "model", "transmission", "fuel_type"}
  IN [columns |-> frame.columns,
      rows |-> [i \in DOMAIN frame.rows |->
                  [c \in DOMAIN frame.rows[i] |->
                     IF c \in text THEN CodeBook[frame.rows[i][c]]
                     ELSE frame.rows[i][c]]],
      numeric |-> text]

VehicleTypes == {"car", "motorcycle"}

Droppable(vehicle_type) == Range(select_features(vehicle_type)) \cup {"price"}

\* tables with every column, tables of regular rows in codes, and tables of
\* regular rows that lack columns
TablesOf(vt) ==
  {[vehicle_type |-> vt, df |-> Table(vt, sel, lead, n, {})] :
     sel \in Heads, lead \in Leads, n \in RegularCounts}
  \cup
  {[vehicle_type |-> vt, df |-> Coded(Table(vt, {}, 0, n, {}))] : n \in RegularCounts}
  \cup
  {[vehicle_type |-> vt, df |-> Table(vt, {}, 0, n, dropped)] :
     n \in RegularCounts,
     dropped \in {d \in SUBSET Droppable(vt) : Cardinality(d) <= MaxMissing}}

Tables == UNION {TablesOf(vt) : vt \in VehicleTypes}

\* seeds a random generator may be given
Seeds == {7, 42}

\* what the user may type into the two number inputs
YearChoices == {2018, 2019}
MileageChoices == {0, 50000}

\* -------------------------------------------------------------------- state
VARIABLES
  df, vehicle_type,        \* the arguments of render_price_prediction
  pc,                      \* position of the script run
  model, le_dict, train_score, test_score, features,   \* the training result
  fit_data,                \* locals of the training call: cleaned rows, X, y, partition
  calls,                   \* library calls made in this run, in order
  out,                     \* what the run has written to the page
  inputs, pressed,         \* the form's values and the Predict button
  input_df,                \* the vector predict_price hands to the model
  predicted_price, lower_bound, upper_bound,
  similar_vehicles, display_df, importance_df,
  prev,                    \* training result of the previous run on this table
  today,                   \* the year datetime.now() reports
  files,                   \* the two exported CSV files, by vehicle type
  cache,                   \* st.cache_data entries of the two loaders
  loaded                   \* main's df: what the loader call of this run returned

vars == <<df, vehicle_type, pc, model, le_dict, train_score, test_score, features,
          fit_data, calls, out, inputs, pressed, input_df, predicted_price,
          lower_bound, upper_bound, similar_vehicles, display_df, importance_df, prev,
          today, files, cache, loaded>>

\* what main() holds around the price-prediction page
app_state == <<today, files, cache, loaded>>

run_locals == <<model, le_dict, train_score, test_score, features, fit_data, calls,
                out, inputs, pressed, input_df, predicted_price, lower_bound,
                upper_bound, similar_vehicles, display_df, importance_df>>

after_training == <<model, le_dict, train_score, test_score, features, fit_data>>

fresh_run ==
  /\ pc' = "train"
  /\ model' = None /\ le_dict' = None /\ train_score' = None /\ test_score' = None
  /\ features' = None /\ fit_data' = None
  /\ calls' = <<>> /\ out' = <<>>
  /\ inputs' = None /\ pressed' = FALSE /\ input_df' = None
  /\ predicted_price' = None /\ lower_bound' = None /\ upper_bound' = None
  /\ similar_vehicles' = None /\ display_df' = None /\ importance_df' = None

Init ==
  /\ \E t \in Tables : df = t.df /\ vehicle_type = t.vehicle_type
  /\ pc = "train"
  /\ model = None /\ le_dict = None /\ train_score = None /\ test_score = None
  /\ features = None /\ fit_data = None
  /\ calls = <<>> /\ out = <<>>
  /\ inputs = None /\ pressed = FALSE /\ input_df = None
  /\ predicted_price = None /\ lower_bound = None /\ upper_bound = None
  /\ similar_vehicles = None /\ display_df = None /\ importance_df = None
  /\ prev = None
  /\ today = 2026 /\ files = None /\ cache = None /\ loaded = None

\* a split left unseeded: any seed may be drawn
split_unseeded(s) == s \in Seeds

\* random_state=42 of train_test_split and of the regressor
split_random_state(s) == s = 42

forest_random_state(s) == s = 42

\* line 99: the training call
Train ==
  /\ pc = "train"
  /\ \E s \in Seeds, f \in Seeds :
       /\ split_random_state(s)
       /\ forest_random_state(f)
       /\ LET r == train_price_prediction_model(df, vehicle_type, s, f)
          IN /\ model' = r.model
             /\ le_dict' = r.le_dict
             /\ train_score' = r.train_score
             /\ test_score' = r.test_score
             /\ features' = r.features
             /\ fit_data' = r.fit_data
             /\ calls' = calls \o r.calls
             /\ out' = out \o r.out
  /\ pc' = "trained"
  /\ UNCHANGED <<app_state, df, vehicle_type, inputs, pressed, input_df, predicted_price, lower_bound,
                 upper_bound, similar_vehicles, display_df, importance_df, prev>>

\* truth value of an optional dict or list: None and the empty one are false
truthy(o) == o # None /\ DOMAIN Get(o) # {}

\* "if model and le_dict and features": a fitted forest is true (it has trees)
model_ready == model # None /\ truthy(le_dict) /\ truthy(features)

\* an else branch that goes on to the prediction without a model
ShowFailureThenPredict ==
  /\ pc = "trained"
  /\ ~model_ready
  /\ pressed' = TRUE
  /\ pc' = "done"
  /\ UNCHANGED <<app_state, df, vehicle_type, after_training, calls, out, inputs, input_df,
                 predicted_price, lower_bound, upper_bound, similar_vehicles,
                 display_df, importance_df, prev>>

\* lines 216-217: the else branch
ShowFailure ==
  /\ pc = "trained"
  /\ ~model_ready
  /\ out' = Append(out, Msg("error", "failed_to_initialize", <<>>, 0))
  /\ pc' = "done"
  /\ UNCHANGED <<app_state, df, vehicle_type, after_training, calls, inputs, pressed, input_df,
                 predicted_price, lower_bound, upper_bound, similar_vehicles,
                 display_df, importance_df, prev>>

\* ------------------------------------------------------------------ the form
DefaultYear == 2018

unique(rows, col) == {r[col] : r \in Range(rows)}

\* sorted() of a column's distinct values raises TypeError when a missing
\* value (a float) has to be compared with a str
unsortable(values) == NA \in values /\ values # {NA}

min_of(S) == CHOOSE x \in S : \A y \in S : x <= y
max_of(S) == CHOOSE x \in S : \A y \in S : y <= x

make_models(make) ==
  unique(SelectSeq(df.rows, LAMBDA r : eq("make", r.make, make)), "model")

\* number_input refuses a default outside [min_value, max_value]
year_in_bounds(value) ==
  /\ min_of(unique(df.rows, "year")) <= value
  /\ value <= max_of(unique(df.rows, "year"))

restrict(f, keys) == [k \in DOMAIN f \cap keys |-> f[k]]

car_part ==
  IF vehicle_type = "car"
  THEN {restrict([mileage_avg |-> m, transmission |-> t, fuel_type |-> u],
                 Range(Get(features))) :
          m \in MileageChoices,
          t \in unique(df.rows, "transmission"),
          u \in unique(df.rows, "fuel_type")}
  ELSE {restrict([mileage_avg |-> 0], {})}

car_part_raises ==
  /\ vehicle_type = "car"
  /\ \/ "transmission" \in Range(Get(features))
          /\ unsortable(unique(df.rows, "transmission"))
     \/ "fuel_type" \in Range(Get(features))
          /\ unsortable(unique(df.rows, "fuel_type"))

metrics ==
  <<Msg("metric", "training_accuracy", <<>>, Get(train_score)),
    Msg("metric", "testing_accuracy", <<>>, Get(test_score)),
    Msg("form", "details", <<>>, 0)>>

form_raises(kind) ==
  /\ pc' = "crashed"
  /\ out' = out \o metrics \o <<Msg("exception", kind, <<>>, 0)>>
  /\ inputs' = None
  /\ pressed' = FALSE

\* lines 101-146: the scores, the input form and the Predict button
RenderForm ==
  /\ pc = "trained"
  /\ model_ready
  /\ IF unsortable(unique(df.rows, "make"))
     THEN form_raises("TypeError")
     ELSE \E make \in unique(df.rows, "make") :
            IF unsortable(make_models(make))
            THEN form_raises("TypeError")
            ELSE \E mdl \in make_models(make) :
                   IF ~year_in_bounds(DefaultYear)
                   THEN form_raises("StreamlitAPIException")
                   ELSE IF car_part_raises
                   THEN form_raises("TypeError")
                   ELSE \E year \in {y \in YearChoices : year_in_bounds(y)},
                           rest \in car_part, button \in BOOLEAN :
                          /\ inputs' = Some([make |-> make, model |-> mdl,
                                             year |-> year] @@ rest)
                          /\ pressed' = button
                          /\ out' = out \o metrics
                          /\ pc' = IF button THEN "predict" ELSE "done"
  /\ UNCHANGED <<app_state, df, vehicle_type, after_training, calls, input_df, predicted_price,
                 lower_bound, upper_bound, similar_vehicles, display_df,
                 importance_df, prev>>

\* lines 147-152: the call of predict_price
Predict ==
  /\ pc = "predict"
  /\ LET r == predict_price(Get(model), Get(le_dict), Get(features), Get(inputs))
     IN /\ predicted_price' = r.value
        /\ input_df' = r.input_df
        /\ calls' = calls \o r.calls
        /\ out' = out \o r.out
        /\ pc' = IF r.value # None THEN "estimate" ELSE "done"
  /\ UNCHANGED <<app_state, df, vehicle_type, after_training, inputs, pressed, lower_bound,
                 upper_bound, similar_vehicles, display_df, importance_df, prev>>

\* lines 154-161: the estimate and its range
ShowEstimate ==
  /\ pc = "estimate"
  /\ lower_bound' = Some(lower_bound_of(Get(predicted_price)))
  /\ upper_bound' = Some(upper_bound_of(Get(predicted_price)))
  /\ out' = out \o <<Msg("success", "estimated_price", <<>>, Get(predicted_price)),
                     Msg("info", "price_range", <<>>, 0)>>
  /\ pc' = "similar"
  /\ UNCHANGED <<app_state, df, vehicle_type, after_training, calls, inputs, pressed, input_df,
                 predicted_price, similar_vehicles, display_df, importance_df, prev>>

\* a similar-listings step that selects the display columns of an empty result
\* and stops on it
ShowSimilarEmptyRaises ==
  /\ pc = "similar"
  /\ LET found == SelectSeq(df.rows,
                    LAMBDA r : similar_filter(r, Get(inputs), vehicle_type, Get(features)))
     IN /\ similar_vehicles' = Some(found)
        /\ IF found # <<>>
           THEN /\ display_df' = Some(display(found, vehicle_type))
                /\ out' = Append(out, Msg("table", "similar_listings", <<>>,
                                          Len(display(found, vehicle_type))))
                /\ pc' = "importance"
           ELSE /\ display_df' = None
                /\ out' = Append(out, Msg("exception", "IndexError", <<>>, 0))
                /\ pc' = "crashed"
  /\ UNCHANGED <<app_state, df, vehicle_type, after_training, calls, inputs, pressed, input_df,
                 predicted_price, lower_bound, upper_bound, importance_df, prev>>

\* lines 163-200: the similar listings
ShowSimilar ==
  /\ pc = "similar"
  /\ LET found == SelectSeq(df.rows,
                    LAMBDA r : similar_filter(r, Get(inputs), vehicle_type, Get(features)))
     IN /\ similar_vehicles' = Some(found)
        /\ IF found # <<>>
           THEN IF Range(display_cols(vehicle_type)) \subseteq df.columns
                THEN /\ display_df' = Some(display(found, vehicle_type))
                     /\ out' = Append(out, Msg("table", "similar_listings", <<>>,
                                               Len(display(found, vehicle_type))))
                     /\ pc' = "importance"
                ELSE /\ display_df' = None
                     /\ out' = Append(out, Msg("exception", "KeyError", <<>>, 0))
                     /\ pc' = "crashed"
           ELSE /\ display_df' = None
                /\ out' = Append(out, Msg("info", "no_similar_listings", <<>>, 0))
                /\ pc' = "importance"
  /\ UNCHANGED <<app_state, df, vehicle_type, after_training, calls, inputs, pressed, input_df,
                 predicted_price, lower_bound, upper_bound, importance_df, prev>>

\* lines 202-215: the feature importance chart
ShowImportance ==
  /\ pc = "importance"
  /\ importance_df' = Some(importance_frame(Get(features),
                                            Get(model).feature_importances_))
  /\ out' = Append(out, Msg("chart", "feature_importance", <<>>, 0))
  /\ pc' = "done"
  /\ UNCHANGED <<app_state, df, vehicle_type, after_training, calls, inputs, pressed, input_df,
                 predicted_price, lower_bound, upper_bound, similar_vehicles,
                 display_df, prev>>

\* the next interaction on the same table: the script runs again from the top
Rerun ==
  /\ pc \in {"done", "crashed"}
  /\ prev' = Some([model |-> model, le_dict |-> le_dict, train_score |-> train_score,
                   test_score |-> test_score, features |-> features,
                   fit_data |-> fit_data])
  /\ fresh_run
  /\ UNCHANGED <<app_state, df, vehicle_type>>

Next ==
  \/ Train
  \/ ShowFailure
  \/ RenderForm
  \/ Predict
  \/ ShowEstimate
  \/ ShowSimilar
  \/ ShowImportance
  \/ Rerun

Spec == Init /\ [][Next]_vars

\* ============================================================ the application
\* main() of src/app.py around the price-prediction page: loader, sidebar
\* filters, the three analysis pages, then render_price_prediction on the
\* same filtered table.

\* ----------------------------------------------------- utils/data_loader.py
\* a cell of a numeric column whose text is not a number
Text == -2

\* pd.to_numeric(errors='coerce')
to_numeric(v) == IF v = Text THEN NaN ELSE v

CarPriceCap == 1000000
MotorcyclePriceCap == 100000
MinYear == 1900

\* a loader that applies the car limit to both files
price_cap_shared(vt) == CarPriceCap

price_cap(vt) == IF vt = "car" THEN CarPriceCap ELSE MotorcyclePriceCap

\* lines 27-33 and 65-71: the row mask; a comparison with NaN is False
keep_row(r, cap, now) ==
  /\ r.price # NaN /\ r.price > 0 /\ r.price < cap
  /\ r.year # NaN /\ r.year >= MinYear
  /\ (r.year < now \/ (r.year = now /\ tenths(r) = 0))

\* line 35: df['year'].astype(int) cuts the fractional part off
astype_int(rows) == [i \in DOMAIN rows |-> [rows[i] EXCEPT !.year_frac = 0]]

EmptyFrame == [columns |-> {}, rows |-> <<>>]

\* (mileage_min + mileage_max) / 2; NaN if either is NaN.  The files hold
\* readings whose sum is even.
mileage_average(lo, hi) == IF lo = NaN \/ hi = NaN THEN NaN ELSE (lo + hi) \div 2

\* process_vehicle_data: the age column and, where the odometer columns
\* exist, their numeric form and their average.  The age of a listing with a
\* fractional year is its age field less the tenths of its year.
process_vehicle_data(frame, now) ==
  LET odo == {"mileage_min", "mileage_max"} \subseteq frame.columns
      cols == frame.columns \cup {"age"} \cup (IF odo THEN {"mileage_avg"} ELSE {})
      processed(r) == [c \in cols \cup {"idx", "year_frac"} |->
                   IF c = "age" THEN now - r.year
                   ELSE IF c = "mileage_avg"
                        THEN mileage_average(to_numeric(r.mileage_min),
                                             to_numeric(r.mileage_max))
                   ELSE IF odo /\ c \in {"mileage_min", "mileage_max"}
                        THEN to_numeric(r[c])
                   ELSE r[c]]
  IN [columns |-> cols, rows |-> [i \in DOMAIN frame.rows |-> processed(frame.rows[i])]]

\* the body of load_car_data / load_motorcycle_data on the file's content
\* (None: no such file).  Any exception gives the empty frame.  Only the car
\* loader casts the year to int (line 35).
load_data(file, vt, now) ==
  IF file = None \/ ~({"price", "year"} \subseteq Get(file).columns)
  THEN [frame |-> EmptyFrame, failed |-> TRUE]
  ELSE LET raw == Get(file)
           numeric == [i \in DOMAIN raw.rows |->
                         [raw.rows[i] EXCEPT !.price = to_numeric(@),
                                             !.year = to_numeric(@)]]
           kept == SelectSeq(numeric, LAMBDA r : keep_row(r, price_cap(vt), now))
           cast == IF vt = "car" THEN astype_int(kept) ELSE kept
       IN [frame |-> process_vehicle_data([columns |-> raw.columns, rows |-> cast], now),
           failed |-> FALSE]

\* ------------------------------------------------------- utils/constants.py
create_price_segment(price) ==
  IF price < 25000 THEN "Budget (< RM25k)"
  ELSE IF price < 50000 THEN "Entry Level (RM25k-50k)"
  ELSE IF price < 100000 THEN "Mid Range (RM50k-100k)"
  ELSE IF price < 200000 THEN "Premium (RM100k-200k)"
  ELSE "Luxury (> RM200k)"

create_motorcycle_price_segment(price) ==
  IF price < 5000 THEN "Budget (< RM5k)"
  ELSE IF price < 10000 THEN "Entry Level (RM5k-10k)"
  ELSE IF price < 20000 THEN "Mid Range (RM10k-20k)"
  ELSE IF price < 40000 THEN "Premium (RM20k-40k)"
  ELSE "Luxury (> RM40k)"

\* the keys of MALAYSIA_STATES
MALAYSIA_STATES ==
  {"Johor", "Kedah", "Kelantan", "Melaka", "Malacca", "Negeri Sembilan", "N. Sembilan",
   "Pahang", "Perak", "Perlis", "Pulau Pinang", "Penang", "P. Pinang", "Sabah",
   "Sarawak", "Selangor", "Terengganu", "Kuala Lumpur", "KL", "W.P. Kuala Lumpur",
   "Federal Territory of Kuala Lumpur"}

\* ------------------------------------------------ pages/regional_analysis.py
\* standardize_location: a key of MALAYSIA_STATES is returned as it is, any
\* other name goes through location_mapping
standardize_location(location) ==
  IF location \in MALAYSIA_STATES THEN location
  ELSE IF location = "Malacca" THEN "Melaka"
  ELSE IF location = "N. Sembilan" THEN "Negeri Sembilan"
  ELSE IF location \in {"Penang", "P. Pinang"} THEN "Pulau Pinang"
  ELSE IF location \in {"KL", "Kuala Lumpur", "Federal Territory of Kuala Lumpur"}
       THEN "W.P. Kuala Lumpur"
  ELSE IF location = "Putrajaya" THEN "W.P. Putrajaya"
  ELSE IF location = "Labuan" THEN "W.P. Labuan"
  ELSE location

\* df[col] = ...: the column is added or replaced on the frame itself
with_column(frame, col, values) ==
  [columns |-> frame.columns \cup {col},
   rows |-> [i \in DOMAIN frame.rows |->
               [c \in DOMAIN frame.rows[i] \cup {col} |->
                  IF c = col THEN values[i] ELSE frame.rows[i][c]]]]

\* line 45, then 48-54, 65 and 107-109: the location column is rewritten;
\* the page raises without a location column, when the map download fails
\* and when no listing has a location
regional_write(frame) ==
  with_column(frame, "location",
              [i \in DOMAIN frame.rows |-> standardize_location(frame.rows[i].location)])

regional_raises(frame, online) ==
  \/ ~online
  \/ \A i \in DOMAIN frame.rows : frame.rows[i].location = NA

\* ------------------------------------------------- pages/market_overview.py
\* a fuel column left as it was read
str_lower_kept(s) == s

\* Series.str.lower on the fuel names of the files; a missing value stays
str_lower(s) ==
  IF s = "Petrol" THEN "petrol" ELSE IF s = "Diesel" THEN "diesel" ELSE s

\* lines 14-16: the price_segment column
segment_write(frame, vt) ==
  with_column(frame, "price_segment",
              [i \in DOMAIN frame.rows |->
                 IF vt = "car" THEN create_price_segment(frame.rows[i].price)
                 ELSE create_motorcycle_price_segment(frame.rows[i].price)])

\* line 125 of render_car_features
fuel_write(frame) ==
  with_column(frame, "fuel_type",
              [i \in DOMAIN frame.rows |-> str_lower(frame.rows[i].fuel_type)])

\* columns the page reads after price: a missing one is a KeyError;
\* render_motorcycle_features reads model_counts.index[0]
overview_raises(frame, vt) ==
  \/ "make" \notin frame.columns
  \/ vt = "car" /\ ~({"transmission", "fuel_type"} \subseteq frame.columns)
  \/ vt # "car" /\ ("model" \notin frame.columns
                    \/ \A i \in DOMAIN frame.rows : frame.rows[i].model = NA)

\* -------------------------------------------------- pages/price_analysis.py
MaxMileage == 200000
BinSize == 20000

\* pd.cut(mileage.clip(upper=200000), bins=0, 20000, .., 200000): the bin is
\* named here by its lower edge; no bin holds a missing or a zero mileage
mileage_bin(m) ==
  IF m = NaN \/ m <= 0 THEN NaN
  ELSE LET clipped == IF m > MaxMileage THEN MaxMileage ELSE m
       IN BinSize * ((clipped - 1) \div BinSize)

bin_write(frame) ==
  with_column(frame, "mileage_bin",
              [i \in DOMAIN frame.rows |-> mileage_bin(frame.rows[i].mileage_avg)])

\* render_age_analysis, lines 75-89: iloc[0] of an empty selection, and the
\* format of a None when no listing is exactly 5 or exactly 10 years old
age_analysis_raises(frame) ==
  LET ages == {frame.rows[i].age : i \in {k \in DOMAIN frame.rows :
                                            tenths(frame.rows[k]) = 0}}
  IN ages = {} \/ 5 \notin ages \/ 10 \notin ages

\* render_price_distribution: the density estimate needs two different prices
distribution_raises(frame) ==
  Cardinality({frame.rows[i].price : i \in DOMAIN frame.rows}) < 2

\* render_brand_analysis, line 286: sorted(df['make'].unique())
brand_analysis_raises(frame) ==
  unsortable({frame.rows[i].make : i \in DOMAIN frame.rows})

\* ------------------------------------------------------------ the CSV files
\* regular listings in each file
FileRows == 130

Locations == <<"Selangor", "KL", "Putrajaya", "Johor">>

FileColumns(vt) ==
  IF vt = "car"
  THEN {"make", "model", "year", "price", "mileage_min", "mileage_max",
        "transmission", "fuel_type", "location", "ad_url"}
  ELSE {"make", "model", "year", "price", "location", "ad_url"}

\* a regular listing as the export writes it: two odometer readings, fuel
\* names in either case, a state name
Listing(i) ==
  LET r == RegularRow(i)
  IN [make |-> r.make, model |-> r.model, year |-> r.year, year_frac |-> 0,
      price |-> r.price,
      mileage_min |-> r.mileage_avg - 5000, mileage_max |-> r.mileage_avg + 5000,
      transmission |-> r.transmission,
      fuel_type |-> IF i % 4 = 1 /\ r.fuel_type = "petrol" THEN "Petrol" ELSE r.fuel_type,
      location |-> IF i % 13 = 0 THEN NA ELSE Locations[(i % 4) + 1],
      ad_url |-> r.ad_url]

BaseListing == [Listing(2) EXCEPT !.year = 2018, !.price = 40000]

\* listings at and beyond the loader's limits: price not a number, zero,
\* empty, between the two caps, at the car cap; year empty, not a number,
\* 1899, 1900, 2027; no model name; an odometer reading that is not a number;
\* a year with a fractional part (2015.5)
OddListings ==
  <<[BaseListing EXCEPT !.price = Text],
    [BaseListing EXCEPT !.price = 0],
    [BaseListing EXCEPT !.price = NaN],
    [BaseListing EXCEPT !.price = 150000],
    [BaseListing EXCEPT !.price = 1000000],
    [BaseListing EXCEPT !.year = NaN],
    [BaseListing EXCEPT !.year = Text],
    [BaseListing EXCEPT !.year = 1899],
    [BaseListing EXCEPT !.year = 1900],
    [BaseListing EXCEPT !.year = 2027],
    [BaseListing EXCEPT !.make = "Zed", !.model = NA],
    [BaseListing EXCEPT !.mileage_min = Text],
    [BaseListing EXCEPT !.year = 2015, !.year_frac = 5]>>

\* years by which the regular listings of a later export are younger
LaterBy == 4

\* what may be unusual about the export as a whole ("recent": an export made
\* some years later, its regular listings younger by as much)
Defects == {"none", "null_make", "no_price_column", "no_file", "recent"}

File(vt, defect) ==
  LET cols == FileColumns(vt) \ (IF defect = "no_price_column" THEN {"price"} ELSE {})
      extra == IF defect = "null_make" THEN <<[BaseListing EXCEPT !.make = NA]>> ELSE <<>>
      later == IF defect = "recent" THEN LaterBy ELSE 0
      full == [i \in 1..FileRows |-> [Listing(i) EXCEPT !.year = @ + later]]
                \o OddListings \o extra
  IN IF defect = "no_file" THEN None
     ELSE Some([columns |-> cols,
                rows |-> [i \in DOMAIN full |->
                            [c \in cols \cup {"idx", "year_frac"} |->
                               IF c = "idx" THEN i - 1 ELSE full[i][c]]]])

FileSets == {[vt \in VehicleTypes |-> File(vt, d)] : d \in Defects}

\* years the clock may show
ClockYears == {2026, 2027, 2029}

\* lower ends the user may give the price and the year slider
PriceLows == {0, 30000}
YearLows == {0, 2016, 2018, 2019}

\* ----------------------------------------------------------- main(): a run
\* a run that keeps the training result of the run before
start_run_keeping_model ==
  /\ pc' = "load"
  /\ df' = EmptyFrame /\ loaded' = None
  /\ calls' = <<>> /\ out' = <<>>
  /\ inputs' = None /\ pressed' = FALSE /\ input_df' = None
  /\ predicted_price' = None /\ lower_bound' = None /\ upper_bound' = None
  /\ similar_vehicles' = None /\ display_df' = None /\ importance_df' = None
  /\ UNCHANGED <<after_training, prev, today, files>>

\* the script starts again from the top: every local of the last run is gone
start_run ==
  /\ pc' = "load"
  /\ df' = EmptyFrame /\ loaded' = None
  /\ model' = None /\ le_dict' = None /\ train_score' = None /\ test_score' = None
  /\ features' = None /\ fit_data' = None
  /\ calls' = <<>> /\ out' = <<>>
  /\ inputs' = None /\ pressed' = FALSE /\ input_df' = None
  /\ predicted_price' = None /\ lower_bound' = None /\ upper_bound' = None
  /\ similar_vehicles' = None /\ display_df' = None /\ importance_df' = None
  /\ UNCHANGED <<prev, today, files>>

\* an exception outside the price-prediction page ends the run
stop(kind) ==
  /\ pc' = "stopped"
  /\ out' = Append(out, Msg("exception", kind, <<>>, 0))

page_locals == <<after_training, calls, inputs, pressed, input_df, predicted_price,
                 lower_bound, upper_bound, similar_vehicles, display_df,
                 importance_df, prev, today, files>>

InitApp ==
  /\ today \in ClockYears
  /\ files \in FileSets
  /\ cache = [vt \in VehicleTypes |-> None]
  /\ loaded = None
  /\ df = EmptyFrame /\ vehicle_type = "car"
  /\ pc = "load"
  /\ model = None /\ le_dict = None /\ train_score = None /\ test_score = None
  /\ features = None /\ fit_data = None
  /\ calls = <<>> /\ out = <<>>
  /\ inputs = None /\ pressed = FALSE /\ input_df = None
  /\ predicted_price = None /\ lower_bound = None /\ upper_bound = None
  /\ similar_vehicles = None /\ display_df = None /\ importance_df = None
  /\ prev = None

\* line 28: the loader call.  st.cache_data(ttl=300) returns a copy of the
\* stored frame while the entry is alive and runs the loader otherwise; the
\* loader's st.error is shown again on a cache hit
Load ==
  /\ pc = "load"
  /\ \E expired \in BOOLEAN :
       LET hit == cache[vehicle_type] # None /\ ~expired
           r == load_data(files[vehicle_type], vehicle_type, today)
           frame == IF hit THEN Get(cache[vehicle_type]) ELSE r.frame
       IN /\ loaded' = Some(frame)
          /\ cache' = IF hit THEN cache ELSE [cache EXCEPT ![vehicle_type] = Some(r.frame)]
          /\ calls' = IF hit THEN calls ELSE Append(calls, "read_csv")
          /\ IF frame.rows = <<>>
             THEN /\ pc' = "no_data"
                  /\ out' = (IF frame.columns = {}
                             THEN <<Msg("error", "failed_to_load", <<>>, 0)>> ELSE <<>>)
                            \o <<Msg("error", "no_data", <<>>, 0)>>
             ELSE /\ pc' = "sidebar"
                  /\ out' = out
  /\ UNCHANGED <<df, vehicle_type, after_training, inputs, pressed, input_df,
                 predicted_price, lower_bound, upper_bound, similar_vehicles,
                 display_df, importance_df, prev, today, files>>

\* lines 74-80: the price and year masks, then the brand mask when brands
\* were chosen; boolean indexing builds a new frame
apply_filters(frame, price_range, year_range, selected_makes) ==
  [columns |-> frame.columns,
   rows |-> SelectSeq(frame.rows, LAMBDA r :
              /\ between("price", r.price, price_range[1], price_range[2])
              /\ year_between(r, year_range[1], year_range[2])
              /\ (selected_makes = {} \/ r.make \in selected_makes))]

\* lines 39-91: the sidebar widgets and the filtered table.  "Select All
\* Brands" sorts the distinct makes (TypeError over a missing make among
\* names); the search box calls make.lower() on each (AttributeError on a
\* missing make).  The multiselect holds no brand or one.
Sidebar ==
  /\ pc = "sidebar"
  /\ LET frame == Get(loaded)
         makes == unique(frame.rows, "make")
         prices == unique(frame.rows, "price")
         years == unique(frame.rows, "year")
     IN \E select_all_makes \in BOOLEAN, plo \in PriceLows, ylo \in YearLows,
           pick \in makes \cup {""} :
          IF select_all_makes /\ unsortable(makes)
          THEN stop("TypeError") /\ UNCHANGED df
          ELSE IF ~select_all_makes /\ NA \in makes
          THEN stop("AttributeError") /\ UNCHANGED df
          ELSE LET selected_makes == IF select_all_makes THEN makes
                                     ELSE IF pick = "" THEN {} ELSE {pick}
                   price_range == <<IF plo > min_of(prices) THEN plo ELSE min_of(prices),
                                    max_of(prices)>>
                   year_range == <<IF ylo > min_of(years) THEN ylo ELSE min_of(years),
                                   max_of(years)>>
               IN /\ df' = apply_filters(frame, price_range, year_range, selected_makes)
                  /\ pc' = "tab1"
                  /\ out' = Append(out, Msg("metric", "total_listings", <<>>, 0))
  /\ UNCHANGED <<vehicle_type, page_locals, cache, loaded>>

\* a page that writes into the stored frame as well
MarketOverviewThroughCache ==
  /\ pc = "tab1"
  /\ ~overview_raises(df, vehicle_type)
  /\ df' = fuel_write(segment_write(df, vehicle_type))
  /\ cache' = [cache EXCEPT ![vehicle_type] =
                 Some(segment_write(Get(cache[vehicle_type]), vehicle_type))]
  /\ pc' = "tab2"
  /\ out' = Append(out, Msg("page", "market_overview", <<>>, 0))
  /\ UNCHANGED <<vehicle_type, page_locals, loaded>>

\* tab1: render_market_overview(filtered_df, vehicle_type)
MarketOverview ==
  /\ pc = "tab1"
  /\ LET segmented == segment_write(df, vehicle_type)
     IN IF overview_raises(df, vehicle_type)
        THEN df' = segmented /\ stop("KeyError")
        ELSE /\ df' = IF vehicle_type = "car" THEN fuel_write(segmented) ELSE segmented
             /\ pc' = "tab2"
             /\ out' = Append(out, Msg("page", "market_overview", <<>>, 0))
  /\ UNCHANGED <<vehicle_type, page_locals, cache, loaded>>

\* tab2: render_price_analysis(filtered_df, vehicle_type)
PriceAnalysis ==
  /\ pc = "tab2"
  /\ IF age_analysis_raises(df)
     THEN stop("TypeError") /\ UNCHANGED df
     ELSE IF vehicle_type = "car" /\ "mileage_avg" \notin df.columns
     THEN stop("KeyError") /\ UNCHANGED df
     ELSE IF vehicle_type # "car" /\ distribution_raises(df)
     THEN stop("LinAlgError") /\ UNCHANGED df
     ELSE /\ df' = IF vehicle_type = "car" THEN bin_write(df) ELSE df
          /\ IF brand_analysis_raises(df)
             THEN stop("TypeError")
             ELSE /\ pc' = "tab3"
                  /\ out' = Append(out, Msg("page", "price_analysis", <<>>, 0))
  /\ UNCHANGED <<vehicle_type, page_locals, cache, loaded>>

\* tab3: render_regional_analysis(filtered_df, vehicle_type); the map is
\* downloaded on every run
RegionalAnalysis ==
  /\ pc = "tab3"
  /\ \E online \in BOOLEAN :
       IF "location" \notin df.columns
       THEN stop("KeyError") /\ UNCHANGED df
       ELSE /\ df' = regional_write(df)
            /\ IF regional_raises(df, online)
               THEN stop("ConnectionError")
               ELSE /\ pc' = "train"
                    /\ out' = Append(out, Msg("page", "regional_analysis", <<>>, 0))
  /\ UNCHANGED <<vehicle_type, page_locals, cache, loaded>>

\* lines 129-131: the refresh button, drawn when the script reached it
Refresh ==
  /\ pc \in {"done", "no_data"}
  /\ cache' = [vt \in VehicleTypes |-> None]
  /\ start_run
  /\ UNCHANGED vehicle_type

\* any other interaction: the radio, a filter widget, a form widget
Interact ==
  /\ pc \in {"done", "no_data", "crashed", "stopped"}
  /\ \E vt \in VehicleTypes : vehicle_type' = vt
  /\ start_run
  /\ UNCHANGED cache

NextApp ==
  \/ Load
  \/ Sidebar
  \/ MarketOverview
  \/ PriceAnalysis
  \/ RegionalAnalysis
  \/ Train
  \/ ShowFailure
  \/ RenderForm
  \/ Predict
  \/ ShowEstimate
  \/ ShowSimilar
  \/ ShowImportance
  \/ Refresh
  \/ Interact

SpecApp == InitApp /\ [][NextApp]_vars

\* =================================================================== claims
\* the schema of each vehicle category, as the specification lists it
SchemaOf(vt) ==
  IF vt = "car" THEN {"make", "model", "year", "mileage_avg", "transmission", "fuel_type"}
  ELSE {"make", "model", "year"}

TextFeatures == {"make", "model", "transmission", "fuel_type"}

HasValue(r, c) == IF c \in TextFeatures THEN r[c] # "<NA>" ELSE r[c] # -1

SchemaPresent == SchemaOf(vehicle_type) \cup {"price"} \subseteq df.columns

\* positions of the rows with no null in any schema feature nor in price
Usable ==
  {i \in DOMAIN df.rows :
     \A c \in SchemaOf(vehicle_type) \cup {"price"} : HasValue(df.rows[i], c)}

Said(level, kind) == \E i \in DOMAIN out : out[i].level = level /\ out[i].kind = kind

Called(name) == \E i \in DOMAIN calls : calls[i] = name

TrainingReturned ==
  pc \notin {"load", "sidebar", "tab1", "tab2", "tab3", "stopped", "no_data", "train"}

\* C1: with exactly 99 usable rows training returns no model and fits nothing;
\* with exactly 100 it encodes (the text features, if the schema has any),
\* splits and fits.
C1_InsufficientDataGate ==
  (TrainingReturned /\ SchemaPresent) =>
     /\ Cardinality(Usable) = 99 =>
          /\ model = None
          /\ ~Called("fit_transform") /\ ~Called("train_test_split") /\ ~Called("fit")
          /\ \E i \in DOMAIN out : out[i].kind = "insufficient_data" /\ out[i].n = 99
     /\ Cardinality(Usable) = 100 =>
          /\ Called("fit_transform")
               <=> (SchemaOf(vehicle_type) \cap TextFeatures) \ numeric_columns(df) # {}
          /\ Called("train_test_split") /\ Called("fit")
          /\ ~Said("warning", "insufficient_data")

C1_Witness ==
  /\ TrainingReturned /\ SchemaPresent
  /\ Cardinality(Usable) = 100
  /\ Len(df.rows) > 100
  /\ model # None

C1_Witness99 ==
  /\ TrainingReturned /\ SchemaPresent
  /\ Cardinality(Usable) = 99
  /\ Len(df.rows) > 99
  /\ model = None

\* the rows the encoders were built from (the cleaned rows of this run)
CleanedRows == IF fit_data = None THEN <<>> ELSE Get(fit_data).model_df

ObservedValues(f) == {CleanedRows[i][f] : i \in DOMAIN CleanedRows}

\* the Predict button was pressed and predict_price has returned
PredictionReturned == pressed /\ pc # "predict"

\* an encoded feature whose submitted value no cleaned training row holds
UnknownInput(f) ==
  /\ f \in SchemaOf(vehicle_type) \cap TextFeatures
  /\ f \in DOMAIN Get(inputs)
  /\ Get(inputs)[f] \notin ObservedValues(f)

\* C2: a value of an encoded feature that was not observed when the encoder
\* was built makes predict_price return no value, without model inference.
C2_UnknownCategoryRejected ==
  (PredictionReturned /\ \E f \in TextFeatures : UnknownInput(f)) =>
     /\ predicted_price = None
     /\ lower_bound = None /\ upper_bound = None
     /\ ~Called("predict")
     /\ Said("warning", "unknown_category")
     /\ ~Said("success", "estimated_price")

C2_Witness ==
  /\ PredictionReturned
  /\ UnknownInput("make")
  /\ Get(inputs).make = "Zed"
  /\ predicted_price = None
  /\ pc = "done"

\* the schema features that are not columns of the table
MissingOf(vt) == {f \in SchemaOf(vt) : f \notin df.columns}

\* C3: when schema features are not columns of the table, training returns a
\* failure naming exactly those features; no encoder is built, nothing is fitted.
C3_SchemaMismatch ==
  (TrainingReturned /\ MissingOf(vehicle_type) # {}) =>
     /\ \E i \in DOMAIN out :
          /\ out[i].level = "warning" /\ out[i].kind = "missing_features"
          /\ Range(out[i].cols) = MissingOf(vehicle_type)
          /\ Len(out[i].cols) = Cardinality(MissingOf(vehicle_type))
     /\ model = None /\ le_dict = None /\ features = None
     /\ ~Called("fit_transform") /\ ~Called("train_test_split") /\ ~Called("fit")

C3_Witness ==
  /\ TrainingReturned
  /\ vehicle_type = "car"
  /\ MissingOf("car") = {"fuel_type"}
  /\ out[1].cols = <<"fuel_type">>
  /\ model = None

C3_WitnessTwo ==
  /\ TrainingReturned
  /\ vehicle_type = "motorcycle"
  /\ MissingOf("motorcycle") = {"make", "year"}
  /\ out[1].cols = <<"make", "year">>

\* C4: after a successful prediction lower_bound < point_estimate < upper_bound,
\* lower_bound = 0.85 x point_estimate and upper_bound = 1.15 x point_estimate
\* (bounds are held in hundredths).
C4_BoundOrdering ==
  (PredictionReturned /\ predicted_price # None /\ pc # "estimate") =>
     /\ lower_bound # None /\ upper_bound # None
     /\ Get(lower_bound) < 100 * Get(predicted_price)
     /\ 100 * Get(predicted_price) < Get(upper_bound)
     /\ Get(lower_bound) = 85 * Get(predicted_price)
     /\ Get(upper_bound) = 115 * Get(predicted_price)

C4_Witness ==
  /\ PredictionReturned /\ predicted_price # None /\ pc = "similar"
  /\ Get(predicted_price) > 0
  /\ Get(lower_bound) < Get(upper_bound)

Abs(x) == IF x < 0 THEN -x ELSE x

\* the comparable-listing rule of the specification, for the submitted inputs
Comparable(r) ==
  /\ HasValue(r, "make") /\ r.make = Get(inputs).make
  /\ HasValue(r, "model") /\ r.model = Get(inputs).model
  /\ HasValue(r, "year") /\ Abs(r.year - Get(inputs).year) <= 2
  /\ vehicle_type = "car" =>
       /\ HasValue(r, "mileage_avg")
       /\ Abs(r.mileage_avg - Get(inputs).mileage_avg) <= 20000

\* the similar-listings step of this run has been taken
SimilarShown == pressed /\ pc \in {"importance", "done"} /\ similar_vehicles # None

\* C5: a row of the working table is a comparable listing iff make and model
\* match, the year is within 2 and, for cars only, the mileage is within 20,000
\* (bounds included).
C5_ComparableFilter ==
  SimilarShown =>
     \A i \in DOMAIN df.rows :
        (\E k \in DOMAIN Get(similar_vehicles) : Get(similar_vehicles)[k] = df.rows[i])
          <=> Comparable(df.rows[i])

\* a car request with rows on and just beyond each bound of both windows
C5_Witness ==
  /\ SimilarShown /\ vehicle_type = "car"
  /\ \E i \in DOMAIN df.rows :
       /\ Comparable(df.rows[i]) /\ Abs(df.rows[i].year - Get(inputs).year) = 2
  /\ \E i \in DOMAIN df.rows :
       /\ Comparable(df.rows[i])
       /\ Abs(df.rows[i].mileage_avg - Get(inputs).mileage_avg) = 20000
  /\ \E i \in DOMAIN df.rows :
       /\ ~Comparable(df.rows[i]) /\ df.rows[i].make = Get(inputs).make
       /\ df.rows[i].model = Get(inputs).model
       /\ Abs(df.rows[i].year - Get(inputs).year) = 3
  /\ \E i \in DOMAIN df.rows :
       /\ ~Comparable(df.rows[i]) /\ df.rows[i].make = Get(inputs).make
       /\ df.rows[i].model = Get(inputs).model
       /\ Abs(df.rows[i].year - Get(inputs).year) <= 2
       /\ Abs(df.rows[i].mileage_avg - Get(inputs).mileage_avg) = 20001

\* a motorcycle request: mileage plays no part
C5_WitnessMotorcycle ==
  /\ SimilarShown /\ vehicle_type = "motorcycle"
  /\ Get(similar_vehicles) # <<>>

\* index labels of the comparable rows, in table order
Matches == {i \in DOMAIN df.rows : Comparable(df.rows[i])}

NthMatch(k) == CHOOSE i \in Matches : Cardinality({j \in Matches : j < i}) = k - 1

Shown == IF display_df = None THEN <<>> ELSE Get(display_df)

\* C6: the listings shown are at most 5, and are the first min(5, matches)
\* comparable rows in table order.
C6_FirstFiveInTableOrder ==
  SimilarShown =>
     LET matches == Matches
         shown == Shown
         nth == [k \in DOMAIN shown |->
                   CHOOSE i \in matches : Cardinality({j \in matches : j < i}) = k - 1]
     IN /\ Len(shown) <= 5
        /\ Len(shown) = (IF Cardinality(matches) < 5 THEN Cardinality(matches) ELSE 5)
        /\ \A k \in DOMAIN shown :
             /\ shown[k].idx = df.rows[nth[k]].idx
             /\ shown[k].price = df.rows[nth[k]].price
             /\ shown[k].year = df.rows[nth[k]].year

C6_Witness ==
  /\ SimilarShown
  /\ Cardinality(Matches) > 5
  /\ Len(Shown) = 5

C6_WitnessFew ==
  /\ SimilarShown
  /\ Cardinality(Matches) \in 1..4
  /\ Len(Shown) = Cardinality(Matches)

\* C7: when no row matches, the result is an empty set reported as "no similar
\* listings"; the estimate stands and the feature importance still completes.
C7_EmptyComparablesNoError ==
  (pressed /\ similar_vehicles = Some(<<>>)) =>
     /\ pc \in {"importance", "done"}
     /\ Said("info", "no_similar_listings")
     /\ ~\E i \in DOMAIN out : out[i].level \in {"exception", "error"}
     /\ predicted_price # None
     /\ \E i \in DOMAIN out : /\ out[i].kind = "estimated_price"
                              /\ out[i].n = Get(predicted_price)
     /\ lower_bound # None /\ upper_bound # None
     /\ pc = "done" => (importance_df # None /\ Said("chart", "feature_importance"))

C7_Witness ==
  /\ pressed /\ similar_vehicles = Some(<<>>)
  /\ pc = "done"
  /\ importance_df # None
  /\ Len(Get(importance_df)) = Len(Get(features))

\* inputs the form of this table can submit, used to compare two models
ProbeInputs ==
  IF numeric_columns(df) = {}
  THEN {[make |-> mk, model |-> md, year |-> y, mileage_avg |-> m,
         transmission |-> "Auto", fuel_type |-> "petrol"] :
          mk \in {"Honda", "Toyota", "Zed"}, md \in {"Civic", "Vios", "Zeta"},
          y \in YearChoices, m \in MileageChoices}
  ELSE {[make |-> mk, model |-> md, year |-> y, mileage_avg |-> m,
         transmission |-> "0", fuel_type |-> "0"] :
          mk \in {"1", "2"}, md \in {"125", "250"},
          y \in YearChoices, m \in MileageChoices}

FeatureIndex(f) == CHOOSE j \in DOMAIN Get(features) : Get(features)[j] = f

\* C9: each encoder is a bijection between the distinct values of the cleaned
\* training rows and integer codes, and an observed value submitted for
\* prediction gets the code it has in the training rows.
C9_EncoderRoundTrip ==
  (TrainingReturned /\ le_dict # None) =>
     /\ DOMAIN Get(le_dict)
          = (SchemaOf(vehicle_type) \cap TextFeatures) \ numeric_columns(df)
     /\ \A f \in DOMAIN Get(le_dict) :
          LET classes == Get(le_dict)[f]
              j == FeatureIndex(f)
              X == Get(fit_data).X
              observed == ObservedValues(f)
              \* the code a value has in the training rows
              code == [v \in observed |->
                         X[CHOOSE a \in DOMAIN CleanedRows : CleanedRows[a][f] = v][j]]
          IN /\ Range(classes) = observed
             /\ Len(classes) = Cardinality(observed)
             /\ \A a \in DOMAIN CleanedRows : X[a][j] = code[CleanedRows[a][f]]
             /\ \A v, w \in observed : code[v] = code[w] => v = w
             /\ \A v \in observed : transform(classes, v) = Some(code[v])
             /\ (input_df # None /\ Get(inputs)[f] \in observed) =>
                  Get(input_df)[j] = code[Get(inputs)[f]]

C9_Witness ==
  /\ TrainingReturned /\ le_dict # None
  /\ vehicle_type = "car"
  /\ input_df # None
  /\ Cardinality(ObservedValues("model")) = 3
  /\ Get(inputs).model = "Civic"
  /\ Get(input_df)[2] = 1

\* none of the five parts of the training result, or all of them
NoParts ==
  /\ model = None /\ le_dict = None /\ train_score = None /\ test_score = None
  /\ features = None

AllParts ==
  /\ model # None /\ le_dict # None /\ train_score # None /\ test_score # None
  /\ features # None

TrainingFailureSaid ==
  \/ Said("warning", "missing_features")
  \/ Said("warning", "insufficient_data")
  \/ Said("error", "data_preparation")
  \/ Said("error", "model_training")

\* C10: every failure of training (missing schema feature, fewer than 100
\* usable rows, an exception in data preparation, in fitting or in scoring) is
\* returned as a result without model, encoders, scores and schema; a model
\* never comes with one of the other four parts missing.
C10_TrainingAllOrNothing ==
  /\ TrainingReturned => (NoParts \/ AllParts)
  /\ (TrainingReturned /\ TrainingFailureSaid) => NoParts
  /\ (TrainingReturned /\ ~TrainingFailureSaid) => AllParts
  /\ (TrainingReturned /\ ~SchemaPresent) => NoParts
  /\ (TrainingReturned /\ SchemaPresent /\ Cardinality(Usable) < 100) => NoParts
  /\ (TrainingReturned /\ Called("fit") /\ ~Called("score")) => NoParts

\* a failure inside the inner try block: fit was called and raised
C10_Witness ==
  /\ pc = "done"
  /\ Said("error", "model_training")
  /\ Called("fit")
  /\ NoParts
  /\ Said("error", "failed_to_initialize")

C10_WitnessPreparation ==
  /\ pc = "done" /\ Said("error", "data_preparation") /\ NoParts

C10_WitnessScoring ==
  /\ pc = "done" /\ Said("error", "model_training") /\ Called("score") /\ NoParts

\* C11: the feature-importance table has one line per schema feature, every
\* schema feature exactly once, each line carrying the contribution score the
\* model holds at that feature's position in the schema, and the lines are in
\* non-increasing order of score.
C11_ImportancePairedAndOrdered ==
  importance_df # None =>
    LET t == Get(importance_df)
        fs == Get(features)
    IN /\ Len(t) = Len(fs)
       /\ \A f \in SchemaOf(vehicle_type) :
            Cardinality({k \in DOMAIN t : t[k].Feature = f}) = 1
       /\ \A k \in DOMAIN t :
            /\ t[k].Feature \in SchemaOf(vehicle_type)
            /\ t[k].Importance = Get(model).feature_importances_[FeatureIndex(t[k].Feature)]
       /\ \A k \in DOMAIN t : k < Len(t) => t[k].Importance >= t[k + 1].Importance

\* a car report whose scores are not in schema order, so the sort moved lines
C11_Witness ==
  /\ importance_df # None
  /\ vehicle_type = "car"
  /\ Get(importance_df)[1].Feature # Get(features)[1]
  /\ \E k \in DOMAIN Get(importance_df) :
       k < Len(Get(importance_df))
       /\ Get(importance_df)[k].Importance > Get(importance_df)[k + 1].Importance

\* C14: within one run of render_price_prediction a prediction, the search
\* for comparable listings and the feature-importance report happen only when
\* the training call of that run has returned a model; when training returned
\* no model the run ends with the failure message and with no form, no
\* prediction, no comparables and no importance report.
PredictionAttempted ==
  \/ pc \in {"predict", "estimate", "similar", "importance"}
  \/ Called("predict")
  \/ pressed
  \/ input_df # None \/ predicted_price # None
  \/ similar_vehicles # None \/ display_df # None \/ importance_df # None

C14_PredictionOnlyAfterModel ==
  /\ PredictionAttempted =>
       /\ TrainingReturned
       /\ model # None
       /\ Called("fit") /\ Called("train_test_split")
  /\ (TrainingReturned /\ model = None) =>
       /\ pc \in {"trained", "done"}
       /\ ~PredictionAttempted
       /\ inputs = None
       /\ pc = "done" => Said("error", "failed_to_initialize")

\* a run whose training returned no model and that has ended
C14_Witness ==
  /\ pc = "done" /\ model = None
  /\ Said("error", "failed_to_initialize")
  /\ Said("warning", "insufficient_data")

\* a run that predicted and reported the importances with the model of the run
C14_WitnessPredicted ==
  /\ pc = "done" /\ model # None
  /\ Called("predict") /\ importance_df # None /\ similar_vehicles # None

\* C16: the rows from which the encoders are built, which are split and which
\* are fitted are exactly the rows of the table that have a value in every
\* schema feature and in price, in table order: a row with a null in one of
\* those columns is left out, a row whose only null is in another column
\* (ad_url) is kept.  The rows are compared when the training call returns.
NullOutsideSchema(r) ==
  \E c \in DOMAIN r : c \in StringColumns /\ c \notin TextFeatures /\ r[c] = "<NA>"

C16_CleanedRowsComplete ==
  /\ Said("warning", "insufficient_data") =>
       \A m \in DOMAIN out :
         out[m].kind = "insufficient_data" => out[m].n = Cardinality(Usable)
  /\ (pc = "trained" /\ fit_data # None) =>
    LET d == Get(fit_data)
    IN /\ \A i \in DOMAIN d.model_df :
            \A c \in SchemaOf(vehicle_type) \cup {"price"} : HasValue(d.model_df[i], c)
       /\ d.model_df =
            SelectSeq(df.rows, LAMBDA r :
              \A c \in SchemaOf(vehicle_type) \cup {"price"} : HasValue(r, c))
       /\ \A i \in DOMAIN df.rows :
            (/\ NullOutsideSchema(df.rows[i])
             /\ \A c \in SchemaOf(vehicle_type) \cup {"price"} : HasValue(df.rows[i], c))
              => \E k \in DOMAIN d.model_df : d.model_df[k] = df.rows[i]
       /\ Len(d.X) = Len(d.model_df) /\ Len(d.y) = Len(d.model_df)
       /\ Range(d.parts.train) \cup Range(d.parts.test) = DOMAIN d.model_df
       /\ \A f \in DOMAIN Get(le_dict) :
            Range(Get(le_dict)[f]) = {d.model_df[i][f] : i \in DOMAIN d.model_df}

\* a fitted table that had a row with a null schema feature (left out) and a
\* row with a null advertisement link only (kept)
C16_Witness ==
  /\ pc = "trained" /\ fit_data # None /\ model # None
  /\ \E i \in DOMAIN df.rows : i \notin Usable
  /\ \E i \in Usable : NullOutsideSchema(df.rows[i])

\* C17: the vector predict_price hands to the model has one entry per schema
\* feature, in schema order, which is the column order of the training
\* matrix; at a feature with an encoder the entry is the integer code of the
\* supplied value (its position among the encoder's classes), at a feature
\* without an encoder (year, mileage_avg) it is the supplied number itself.
SchemaOrder(vt) ==
  IF vt = "car" THEN <<"make", "model", "year", "mileage_avg", "transmission", "fuel_type">>
  ELSE <<"make", "model", "year">>

C17_InputInSchemaOrder ==
  input_df # None =>
    LET x == Get(input_df)
        given == Get(inputs)
        enc == Get(le_dict)
    IN /\ Get(features) = SchemaOrder(vehicle_type)
       /\ Len(x) = Len(SchemaOrder(vehicle_type))
       /\ \A i \in DOMAIN Get(fit_data).X : Len(Get(fit_data).X[i]) = Len(x)
       /\ \A j \in DOMAIN x :
            LET f == SchemaOrder(vehicle_type)[j]
            IN IF f \in DOMAIN enc
               THEN /\ x[j] \in 0..(Len(enc[f]) - 1)
                    /\ enc[f][x[j] + 1] = given[f]
                    /\ \A i \in DOMAIN Get(fit_data).model_df :
                         Get(fit_data).model_df[i][f] = given[f]
                           => Get(fit_data).X[i][j] = x[j]
               ELSE /\ f \in {"year", "mileage_avg"}
                    /\ x[j] = given[f]

\* a car prediction whose vector mixes codes and numbers: a make coded above
\* zero, the year and the mileage as typed
C17_Witness ==
  /\ input_df # None /\ vehicle_type = "car" /\ Called("predict")
  /\ Get(input_df)[1] > 0
  /\ Get(input_df)[3] = Get(inputs).year
  /\ Get(input_df)[4] = Get(inputs).mileage_avg
  /\ Get(inputs).mileage_avg # Get(inputs).year

\* C18: when training fits (at least 100 cleaned rows) the cleaned rows are
\* split into a training and an evaluation partition that share no row and
\* together hold every cleaned row exactly once; the evaluation partition has
\* ceil(0.2 n) rows and the training partition the other n - ceil(0.2 n); the
\* train score is the model's score on the training partition and the test
\* score its score on the evaluation partition (compared when training
\* returns; the run does not assign the scores again).
CeilFifth(n) == CHOOSE k \in 0..n : 5 * k >= n /\ 5 * (k - 1) < n

C18_PartitionAndScores ==
  fit_data # None =>
    LET d == Get(fit_data)
        n == Len(d.model_df)
        train == d.parts.train
        test == d.parts.test
    IN /\ n >= 100
       /\ Range(train) \cap Range(test) = {}
       /\ Range(train) \cup Range(test) = 1..n
       /\ Cardinality(Range(train)) = Len(train)
       /\ Cardinality(Range(test)) = Len(test)
       /\ Len(test) = CeilFifth(n)
       /\ Len(train) = n - CeilFifth(n)
       /\ pc = "trained" =>
            /\ train_score = Some(score(Get(model), [k \in DOMAIN train |-> d.X[train[k]]],
                                        [k \in DOMAIN train |-> d.y[train[k]]]))
            /\ test_score = Some(score(Get(model), [k \in DOMAIN test |-> d.X[test[k]]],
                                       [k \in DOMAIN test |-> d.y[test[k]]]))
       /\ train_score # None /\ test_score # None

\* a fit on a number of rows that is not a multiple of five, where the
\* evaluation share is rounded up, and whose two scores differ
C18_Witness ==
  /\ fit_data # None /\ model # None
  /\ Len(Get(fit_data).model_df) = 101
  /\ Len(Get(fit_data).parts.test) = 21
  /\ Len(Get(fit_data).parts.train) = 80
  /\ train_score # test_score

\* C12: every row of a table returned by load_car_data has 0 < price <
\* 1,000,000, every row of a table returned by load_motorcycle_data has
\* 0 < price < 100,000; in both, every row has 1900 <= year <= current year
\* and an age equal to the current year minus its year, so age >= 0; and the
\* rows returned are exactly the file's rows whose price and year are numbers
\* within those limits.
CapOf(vt) == IF vt = "car" THEN 1000000 ELSE 100000

IsNumber(v) == v # -1 /\ v # -2

WithinLimits(r, vt) ==
  /\ IsNumber(r.price) /\ 0 < r.price /\ r.price < CapOf(vt)
  /\ IsNumber(r.year) /\ 1900 <= r.year
  /\ (r.year < today \/ (r.year = today /\ r.year_frac = 0))

Returned(vt) == Get(cache[vt])

C12_LoaderLimits ==
  \A vt \in {"car", "motorcycle"} :
    (cache # None /\ cache[vt] # None) =>
      /\ \A i \in DOMAIN Returned(vt).rows :
           LET r == Returned(vt).rows[i]
           IN /\ 0 < r.price /\ r.price < CapOf(vt)
              /\ 1900 <= r.year /\ r.year <= today
              /\ r.age = today - r.year
              /\ r.age >= 0
      /\ Returned(vt).rows # <<>> => "age" \in Returned(vt).columns
      /\ files[vt] # None =>
           {Returned(vt).rows[i].idx : i \in DOMAIN Returned(vt).rows}
             = IF {"price", "year"} \subseteq Get(files[vt]).columns
               THEN {Get(files[vt]).rows[i].idx :
                       i \in {k \in DOMAIN Get(files[vt]).rows :
                                WithinLimits(Get(files[vt]).rows[k], vt)}}
               ELSE {}

\* both loaders have returned rows; a price between the two caps is in the
\* car table and not in the motorcycle table, the oldest year allowed and the
\* current year's limit were met, and rows were left out
C12_Witness ==
  /\ cache # None /\ cache["car"] # None /\ cache["motorcycle"] # None
  /\ \E i \in DOMAIN Returned("car").rows : Returned("car").rows[i].price = 150000
  /\ \E i \in DOMAIN Returned("motorcycle").rows :
       Returned("motorcycle").rows[i].year = 1900
  /\ \E i \in DOMAIN Returned("motorcycle").rows :
       Returned("motorcycle").rows[i].age = 5
  /\ Len(Returned("motorcycle").rows) < Len(Returned("car").rows)
  /\ Len(Returned("car").rows) < Len(Get(files["car"]).rows)

\* C13: every listing of the working table handed to the price-prediction
\* page (the loaded table after the price, year and brand filters) has a
\* make, a model, a year and a price.
HandedToPrediction ==
  pc \in {"train", "trained", "predict", "estimate", "similar", "importance", "done",
          "crashed"}

C13_WorkingTableComplete ==
  HandedToPrediction =>
    \A i \in DOMAIN df.rows :
      /\ df.rows[i].make # "<NA>"
      /\ df.rows[i].model # "<NA>"
      /\ df.rows[i].year # -1
      /\ df.rows[i].price # -1

\* what the loader does establish for the working table: a year and a price
\* within its limits
C13_YearAndPricePresent ==
  HandedToPrediction =>
    \A i \in DOMAIN df.rows : df.rows[i].year >= 1900 /\ df.rows[i].price > 0

\* a working table with a listing that has no model name reaches training
C13_NullModelHandedOver ==
  /\ pc = "trained"
  /\ \E i \in DOMAIN df.rows : df.rows[i].model = "<NA>" /\ df.rows[i].make # "<NA>"

\* C15: over any sequence of interactions (filters changed, category
\* switched, Predict pressed) a run starts without any model or encoder, and
\* the model and encoders a prediction uses were fitted in that run, on the
\* usable rows of the run's filtered table, with the schema of the category
\* selected in that run; nothing trained under another filter setting or for
\* the other category is used.
BeforeTraining == pc \in {"load", "sidebar", "tab1", "tab2", "tab3", "train"}

PredictionRequested == pressed \/ input_df # None \/ Called("predict")

C15_ModelOfThisRun ==
  /\ BeforeTraining =>
       /\ model = None /\ le_dict = None /\ features = None /\ fit_data = None
       /\ ~PredictionRequested
  /\ PredictionRequested =>
       /\ model # None /\ le_dict # None /\ fit_data # None
       /\ Called("fit")
       /\ Get(features) = SchemaOrder(vehicle_type)
       /\ Get(fit_data).model_df =
            SelectSeq(df.rows, LAMBDA r :
              \A c \in SchemaOf(vehicle_type) \cup {"price"} : HasValue(r, c))
       /\ \A f \in DOMAIN Get(le_dict) :
            Range(Get(le_dict)[f]) =
              {Get(fit_data).model_df[i][f] : i \in DOMAIN Get(fit_data).model_df}
       /\ Get(model).n_features_in_ = Len(SchemaOrder(vehicle_type))
       /\ {df.rows[i].idx : i \in DOMAIN df.rows}
            \subseteq {Get(loaded).rows[k].idx : k \in DOMAIN Get(loaded).rows}
       /\ (cache[vehicle_type] # None /\ ~Called("read_csv")) =>
            Get(loaded).rows = Get(cache[vehicle_type]).rows

\* a car prediction in a later run (the table came from the cache), after a
\* motorcycle run, under a narrowed filter
C15_Witness ==
  /\ Called("predict") /\ predicted_price # None
  /\ vehicle_type = "car"
  /\ ~Called("read_csv")
  /\ cache["motorcycle"] # None
  /\ Len(df.rows) < Len(Get(loaded).rows)
  /\ \A i \in DOMAIN df.rows : df.rows[i].year >= 2016

\* the same for a motorcycle prediction after a car run
C15_WitnessMotorcycle ==
  /\ Called("predict") /\ predicted_price # None
  /\ vehicle_type = "motorcycle"
  /\ ~Called("read_csv")
  /\ cache["car"] # None

\* C19: the table held in the load cache stays as the loader returned it: no
\* page adds price_segment or mileage_bin to it, lower-cases its fuel names
\* or rewrites its locations; those writes are found only on the filtered
\* table of the run, and the table a run reads from the cache is the stored
\* one.
PageColumns == {"price_segment", "mileage_bin"}

AsInFile(vt) ==
  \A i \in DOMAIN Returned(vt).rows :
    LET r == Returned(vt).rows[i]
        src == Get(files[vt]).rows[r.idx + 1]
    IN \A c \in {"make", "model", "transmission", "fuel_type", "location", "ad_url"}
                  \cap Returned(vt).columns : r[c] = src[c]

C19_CacheReadOnly ==
  /\ \A vt \in {"car", "motorcycle"} :
       cache[vt] # None =>
         /\ Returned(vt).columns \cap PageColumns = {}
         /\ Returned(vt).rows # <<>> => AsInFile(vt)
  /\ (loaded # None /\ cache[vehicle_type] # None) =>
       Get(loaded) = Returned(vehicle_type)

\* a run that took its table from the cache and whose three pages have
\* written on the filtered table: the segment and bin columns, a fuel name
\* lower-cased and a location rewritten, all unlike the stored table
C19_Witness ==
  /\ pc = "trained" /\ vehicle_type = "car"
  /\ ~Called("read_csv")
  /\ PageColumns \subseteq df.columns
  /\ \E i \in DOMAIN df.rows :
       /\ df.rows[i].fuel_type = "petrol"
       /\ Get(files["car"]).rows[df.rows[i].idx + 1].fuel_type = "Petrol"
       /\ \E k \in DOMAIN Returned("car").rows :
            /\ Returned("car").rows[k].idx = df.rows[i].idx
            /\ Returned("car").rows[k].fuel_type = "Petrol"
  /\ \E i \in DOMAIN df.rows :
       /\ df.rows[i].location = "W.P. Putrajaya"
       /\ \E k \in DOMAIN Returned("car").rows :
            /\ Returned("car").rows[k].idx = df.rows[i].idx
            /\ Returned("car").rows[k].location = "Putrajaya"

\* C20: whenever the application trains the car price model, every fuel name
\* in the table given to training is in lower case: the market-overview page
\* has lower-cased the column of that same table earlier in the run.
HasUpperCase(s) == s \in {"Petrol", "Diesel"}

C20_FuelLowerCaseAtTraining ==
  (vehicle_type = "car" /\ (pc = "train" \/ TrainingReturned)) =>
    /\ \A i \in DOMAIN df.rows : ~HasUpperCase(df.rows[i].fuel_type)
    /\ fit_data # None =>
         \A i \in DOMAIN Get(fit_data).model_df :
           ~HasUpperCase(Get(fit_data).model_df[i].fuel_type)
    /\ le_dict # None =>
         \A k \in DOMAIN Get(le_dict)["fuel_type"] :
           ~HasUpperCase(Get(le_dict)["fuel_type"][k])
    /\ Said("page", "market_overview")

\* a car model fitted on a table in which the file spells a fuel name with a
\* capital letter
C20_Witness ==
  /\ vehicle_type = "car" /\ pc = "trained" /\ model # None
  /\ \E i \in DOMAIN Get(fit_data).model_df :
       /\ Get(files["car"]).rows[Get(fit_data).model_df[i].idx + 1].fuel_type = "Petrol"
       /\ Get(fit_data).model_df[i].fuel_type = "petrol"

\* C21: for both vehicle categories every row of the loaded table has an
\* integer-valued year: a year with a fractional part in the file never
\* reaches the loaded table or the working table as a non-integer.
C21_YearIntegerValued ==
  /\ \A vt \in {"car", "motorcycle"} :
       cache[vt] # None =>
         \A i \in DOMAIN Get(cache[vt]).rows : Get(cache[vt]).rows[i].year_frac = 0
  /\ pc \notin {"load", "no_data"} =>
       \A i \in DOMAIN df.rows : tenths(df.rows[i]) = 0

\* what the car loader does establish: its cast makes every year whole
C21_CarYearIntegerValued ==
  /\ cache["car"] # None =>
       \A i \in DOMAIN Get(cache["car"]).rows : Get(cache["car"]).rows[i].year_frac = 0
  /\ (vehicle_type = "car" /\ pc \notin {"load", "no_data"}) =>
       \A i \in DOMAIN df.rows : tenths(df.rows[i]) = 0

\* the car loader has cut the fractional year of a listing down to 2015
C21_CarYearCut ==
  /\ cache["car"] # None
  /\ \E i \in DOMAIN Get(cache["car"]).rows :
       LET r == Get(cache["car"]).rows[i]
       IN /\ Get(files["car"]).rows[r.idx + 1].year_frac = 5
          /\ r.year = 2015 /\ r.year_frac = 0

\* the motorcycle model was trained on a working table that holds the year
\* 2015.5 of the file
C21_FractionalYearHandedOver ==
  /\ vehicle_type = "motorcycle" /\ pc = "trained" /\ model # None
  /\ \E i \in DOMAIN df.rows : df.rows[i].year = 2015 /\ df.rows[i].year_frac = 5

\* C22: every value the prediction form can submit for a categorical schema
\* feature (make, model, and for cars transmission and fuel_type) has an entry
\* in the encoder table built in the same run, so a prediction started from
\* the form never ends in the "Unknown category" warning.
C22_FormValuesEncoded ==
  /\ (inputs # None /\ le_dict # None) =>
       \A f \in DOMAIN Get(le_dict) \cap DOMAIN Get(inputs) :
         str(Get(inputs)[f]) \in Range(Get(le_dict)[f])
  /\ ~Said("warning", "unknown_category")

\* the form offered the make of a listing that training had left out for its
\* missing mileage; the prediction started from it ended in the warning
C22_UnknownFromForm ==
  /\ pc = "done" /\ pressed /\ model # None
  /\ Get(inputs).make = "Zed"
  /\ "Zed" \notin Range(Get(le_dict)["make"])
  /\ \E i \in DOMAIN df.rows : df.rows[i].make = "Zed"
  /\ Said("warning", "unknown_category")
  /\ predicted_price = None

\* C23: whenever training returns a model, render_price_prediction shows the
\* two scores and the input form; "Failed to initialize the prediction model"
\* is reported only when training returned no model.  That includes a model
\* that needed no encoder at all (every schema feature numeric).
PageRendered == pc \in {"predict", "estimate", "similar", "importance", "done", "crashed"}

C23_ModelShown ==
  /\ (PageRendered /\ model # None) =>
       /\ Said("metric", "training_accuracy")
       /\ Said("metric", "testing_accuracy")
       /\ Said("form", "details")
  /\ Said("error", "failed_to_initialize") => model = None

\* what the page does establish: the failure is reported exactly when
\* training returned no model or returned an empty encoder table
C23_FailureWithoutModelOrEncoder ==
  PageRendered =>
    (Said("error", "failed_to_initialize")
       <=> (model = None \/ DOMAIN Get(le_dict) = {}))

\* a model was fitted and scored on a table whose schema features are all
\* numeric; the page reported the failure and showed neither score
C23_FittedModelReportedFailed ==
  /\ pc = "done"
  /\ model # None /\ train_score # None /\ test_score # None
  /\ le_dict = Some(<<>>)
  /\ Called("fit") /\ ~Called("fit_transform")
  /\ Said("error", "failed_to_initialize")
  /\ ~Said("metric", "training_accuracy")

\* C24: for every filter setting under which a model is trained, the default
\* year of the prediction form (2018) lies between the minimum and the maximum
\* year of the filtered table, which are the bounds of the year input; the
\* year input is never refused.
C24_DefaultYearInBounds ==
  /\ (pc \in {"trained", "predict", "estimate", "similar", "importance", "done",
              "crashed"} /\ model # None) =>
       /\ min_of(unique(df.rows, "year")) <= 2018
       /\ 2018 <= max_of(unique(df.rows, "year"))
  /\ ~Said("exception", "StreamlitAPIException")

\* what the run does establish while the clock shows 2026: a table that
\* reaches training has passed the age analysis, so it holds listings of
\* 2016 and of 2021, and 2018 is within the bounds
C24_InBoundsThisYear ==
  (today = 2026 /\ pc \in {"train", "trained", "predict", "estimate", "similar",
                            "importance", "done", "crashed"}) =>
     /\ \E i \in DOMAIN df.rows : df.rows[i].year = 2016 /\ tenths(df.rows[i]) = 0
     /\ \E i \in DOMAIN df.rows : df.rows[i].year = 2021 /\ tenths(df.rows[i]) = 0
     /\ year_in_bounds(2018)
     /\ ~Said("exception", "StreamlitAPIException")

\* in 2029 the year slider was set to start at 2019; the model was trained on
\* the listings of 2019 and later and the year input refused its default
C24_DefaultYearRefused ==
  /\ today = 2029 /\ pc = "crashed"
  /\ model # None
  /\ min_of(unique(df.rows, "year")) = 2019
  /\ Said("metric", "training_accuracy")
  /\ Said("exception", "StreamlitAPIException")
  /\ inputs = None

====
